---- MODULE Spec2Model ----
(***************************************************************************)
(* error64: 64-bit error codes with meta-info (src/error64.h, errno64.h).  *)
(*                                                                         *)
(* An int64_t is modelled as the set of the positions 0..63 of its 1 bits  *)
(* (two's complement, bit 63 the sign).  A C string is a TLA+ string; a    *)
(* char array is a string of as many characters as the array has bytes,    *)
(* with NUL standing for the byte 0.                                       *)
(***************************************************************************)
EXTENDS Integers, Sequences, FiniteSets, TLC

(***************************************************************************)
(* 64-bit integer arithmetic, as the macros of error64.h use it.  A value  *)
(* is the set of the positions of its 1 bits.                              *)
(***************************************************************************)
WordBits == 64

Bit == 0 .. (WordBits - 1)

\* The literal nLL (ERR_JN(n,LL)), n a non-negative literal below 2^31.
I64(n) == {i \in 0 .. 30 : (n \div 2^i) % 2 = 1}

\* v << k on int64_t: bits shifted past bit 63 are dropped.
Shl(v, k) == {i + k : i \in {j \in v : j + k < WordBits}}

\* v >> k on int64_t: arithmetic, the sign bit is replicated.
Sar(v, k) ==
    {i - k : i \in {j \in v : j >= k}}
    \cup (IF (WordBits - 1) \in v THEN (WordBits - k) .. (WordBits - 1) ELSE {})

Or64(a, b) == a \cup b

And64(a, b) == a \cap b

\* (int32_t) of a value that fits 31 bits.
RECURSIVE BitsValue(_)
BitsValue(v) ==
    IF v = {} THEN 0
    ELSE LET i == CHOOSE j \in v : TRUE IN 2^i + BitsValue(v \ {i})

Int32(v) == BitsValue(v \cap (0 .. 30))

\* Mutant: the test errno64 == 0 in place of errno64 >= 0.
NonNegative_zero(v) == v = {}

\* Mutant: the test errno64 > 0 in place of errno64 >= 0.
NonNegative_positive(v) == (WordBits - 1) \notin v /\ v # {}

\* errno64 >= 0 on int64_t.
NonNegative(v) == (WordBits - 1) \notin v

(***************************************************************************)
(* Bit layout and the codec macros.                                        *)
(***************************************************************************)
ERR_BIT_E == 63
ERR_BIT_V == 56
ERR_BIT_R == 40
ERR_BIT_L == 24
ERR_BIT_N == 23
ERR_BIT_A == 15
ERR_BIT_U == 0

ERR_ERROR == Shl(I64(1), ERR_BIT_E)

ERR_NOT == Shl(I64(1), ERR_BIT_N)

\* Mutant: the error flag combined with ^ instead of |.
ERROR64_xor(ver, rev, line, x) ==
    LET fields == Or64(Or64(Or64(Shl(I64(ver), ERR_BIT_V), Shl(I64(rev), ERR_BIT_R)),
                            Shl(I64(line), ERR_BIT_L)),
                       x)
    IN  (ERR_ERROR \ fields) \cup (fields \ ERR_ERROR)

\* ERROR64(x) at a call site compiled with ERR_VER_NO = ver, ERR_REV_NO = rev
\* and __LINE__ = line: the fields are OR-ed in unmasked.
ERROR64(ver, rev, line, x) ==
    Or64(Or64(Or64(Or64(ERR_ERROR, Shl(I64(ver), ERR_BIT_V)),
                   Shl(I64(rev), ERR_BIT_R)),
              Shl(I64(line), ERR_BIT_L)),
         x)

\* Mutant: the error flag read without the mask 0x1, the shifted sign kept.
ERROR64_GET_E_signed(ec) == IF (WordBits - 1) \in ec THEN -1 ELSE 0

ERROR64_GET_E(ec) == Int32(And64(Sar(ec, ERR_BIT_E), I64(1)))

\* Mutant: the version read through the mask 0x3f, one bit short.
ERROR64_GET_V_6bit(ec) == Int32(And64(Sar(ec, ERR_BIT_V), I64(63)))

ERROR64_GET_V(ec) == Int32(And64(Sar(ec, ERR_BIT_V), I64(127)))

\* Mutant: the revision read through the mask 0xff.
ERROR64_GET_R_byte(ec) == Int32(And64(Sar(ec, ERR_BIT_R), I64(255)))

ERROR64_GET_R(ec) == Int32(And64(Sar(ec, ERR_BIT_R), I64(65535)))

ERROR64_GET_L(ec) == Int32(And64(Sar(ec, ERR_BIT_L), I64(65535)))

ERROR64_GET_N(ec) == Int32(And64(Sar(ec, ERR_BIT_N), I64(1)))

ERROR64_GET_A(ec) == Int32(And64(Sar(ec, ERR_BIT_A), I64(255)))

ERROR64_GET_U(ec) == Int32(And64(Sar(ec, ERR_BIT_U), I64(32767)))

(***************************************************************************)
(* C strings and char arrays.                                              *)
(***************************************************************************)
\* Stand-in for the byte 0; no string of the model contains it.
NUL == "$"

\* Stand-in for a byte of an uninitialised array.
GARBAGE == "#"

CharAt(s, i) == SubSeq(s, i, i)

\* n copies of the character c.
RECURSIVE Rep(_, _)
Rep(c, n) ==
    IF n = 0 THEN ""
    ELSE LET half == Rep(c, n \div 2)
         IN  IF n % 2 = 0 THEN half \o half ELSE half \o half \o c

\* The bytes of region a from offset n (0-based) on.
From(a, n) == IF n < Len(a) THEN SubSeq(a, n + 1, Len(a)) ELSE ""

\* strlen: the number of bytes before the first zero byte.
\* The 1-based position of the first zero byte of a in lo..hi, 0 if none.
RECURSIVE FirstNul(_, _, _)
FirstNul(a, lo, hi) ==
    IF lo > hi THEN 0
    ELSE IF lo = hi THEN (IF CharAt(a, lo) = NUL THEN lo ELSE 0)
    ELSE LET mid  == (lo + hi) \div 2
             left == FirstNul(a, lo, mid)
         IN  IF left # 0 THEN left ELSE FirstNul(a, mid + 1, hi)

StrLen(a) == LET at == FirstNul(a, 1, Len(a)) IN IF at = 0 THEN Len(a) ELSE at - 1

\* The C string held in region a.
CStr(a) == SubSeq(a, 1, StrLen(a))

\* Mutant: strcpy that appends to the string already at dst, as strcat does.
Strcpy_append(dst, src) ==
    LET n == StrLen(dst)
    IN  SubSeq(dst, 1, n) \o src \o NUL \o From(dst, n + Len(src) + 1)

\* A region is the array followed by whatever bytes a write past its end has
\* clobbered: strcpy and strcat store every byte of src and the terminator,
\* whatever the size of the array.
Strcpy(dst, src) == src \o NUL \o From(dst, Len(src) + 1)

Strcat(dst, src) ==
    LET n == StrLen(dst)
    IN  SubSeq(dst, 1, n) \o src \o NUL \o From(dst, n + Len(src) + 1)

\* a[idx] = c, idx 0-based.
Store(a, idx, c) ==
    IF idx < Len(a) THEN SubSeq(a, 1, idx) \o c \o From(a, idx + 1)
    ELSE a \o Rep(GARBAGE, idx - Len(a)) \o c

\* %d of a non-negative int.
RECURSIVE Dec(_)
Dec(n) == IF n < 10 THEN CharAt("0123456789", n + 1)
          ELSE Dec(n \div 10) \o CharAt("0123456789", (n % 10) + 1)

\* The hexadecimal digits of v, most significant first, 16 of them.
Nibble(v, k) == BitsValue({j \in 0 .. 3 : (4 * k + j) \in v})

RECURSIVE HexDigits(_, _, _)
HexDigits(v, k, digits) ==
    IF k < 0 THEN ""
    ELSE CharAt(digits, Nibble(v, k) + 1) \o HexDigits(v, k - 1, digits)

RECURSIVE StripZeros(_)
StripZeros(s) == IF Len(s) > 1 /\ CharAt(s, 1) = "0" THEN StripZeros(Tail(s)) ELSE s

(***************************************************************************)
(* The vocabulary: attribute constants, the adjective switch of            *)
(* strerror64, and the demo glossary.                                      *)
(***************************************************************************)
\* #define ERR_<name> ( n LL << ERR_BIT_A ): name :> n.
ERR_ATTR ==
    ("A" :> 1) @@ ("ACK" :> 2) @@ ("ACTIVE" :> 3) @@ ("ALIGNED" :> 4) @@ ("ALLOWED" :> 5) @@
    ("ASSIGNED" :> 6) @@ ("ATTACHED" :> 7) @@ ("ATTEMPTED" :> 8) @@ ("AUTHORIZED" :> 9) @@
    ("AVAILABLE" :> 10) @@ ("BAD" :> 11) @@ ("BLOCKED" :> 12) @@ ("BROKEN" :> 13) @@
    ("BUILT" :> 14) @@ ("BUSY" :> 15) @@ ("CLOSED" :> 16) @@ ("COLLIDED" :> 17) @@
    ("COMPILED" :> 18) @@ ("COMPLETE" :> 19) @@ ("CONFLICTED" :> 20) @@ ("CONNECTED" :> 21) @@
    ("CONSTRUCTED" :> 22) @@ ("CREATED" :> 23) @@ ("DEFINED" :> 24) @@ ("DENIED" :> 25) @@
    ("DEPARTED" :> 26) @@ ("DESTRUCTED" :> 27) @@ ("DETACHED" :> 28) @@ ("DETECTED" :> 29) @@
    ("DISABLED" :> 30) @@ ("DOWN" :> 31) @@ ("DOWNLOADED" :> 32) @@ ("EMPTY" :> 33) @@
    ("ENABLED" :> 34) @@ ("ENHANCED" :> 35) @@ ("ENOUGH" :> 36) @@ ("EXCEEDED" :> 37) @@
    ("EXCHANGED" :> 38) @@ ("EXECUTABLE" :> 39) @@ ("EXISTS" :> 40) @@ ("EXPIRED" :> 41) @@
    ("EXTENDED" :> 42) @@ ("FAILED" :> 43) @@ ("FALSE" :> 44) @@ ("FATAL" :> 45) @@
    ("FORBIDDEN" :> 46) @@ ("FORMATTED" :> 47) @@ ("FOUND" :> 48) @@ ("FULL" :> 49) @@
    ("GONE" :> 50) @@ ("GOOD" :> 51) @@ ("HALTED" :> 52) @@ ("HIDDEN" :> 53) @@
    ("HOLD" :> 54) @@ ("IDLE" :> 55) @@ ("ILLEGAL" :> 56) @@ ("IMPLEMENTED" :> 57) @@
    ("IN_PROGRESS" :> 58) @@ ("IN_USE" :> 59) @@ ("INITIALIZED" :> 60) @@ ("INSERTED" :> 61) @@
    ("INSTALLED" :> 62) @@ ("INTERRUPTED" :> 63) @@ ("JOINED" :> 64) @@ ("KNOWN" :> 65) @@
    ("LINKED" :> 66) @@ ("LOADED" :> 67) @@ ("LOCAL" :> 68) @@ ("LOCKED" :> 69) @@
    ("LOOPED" :> 70) @@ ("LOST" :> 71) @@ ("MERGED" :> 72) @@ ("MISSING" :> 73) @@
    ("MOUNTED" :> 74) @@ ("NEEDED" :> 75) @@ ("NO" :> 76) @@ ("NO_SUCH" :> 77) @@
    ("OFF" :> 78) @@ ("ON" :> 79) @@ ("ONLINE" :> 80) @@ ("OPEN" :> 81) @@ ("ORDERED" :> 82) @@
    ("OUT_OF" :> 83) @@ ("OUT_OF_RANGE" :> 84) @@ ("OVERFLOW" :> 85) @@ ("PADDED" :> 86) @@
    ("PARTED" :> 87) @@ ("PERMITTED" :> 88) @@ ("POPPED" :> 89) @@ ("PRELOADED" :> 90) @@
    ("PROCESSABLE" :> 91) @@ ("PROVIDED" :> 92) @@ ("PUSHED" :> 93) @@ ("REACHABLE" :> 94) @@
    ("READABLE" :> 95) @@ ("RECEIVED" :> 96) @@ ("REFUSED" :> 97) @@ ("REGISTERED" :> 98) @@
    ("REJECTED" :> 99) @@ ("RELEASED" :> 100) @@ ("REMOTE" :> 101) @@ ("REMOVED" :> 102) @@
    ("RENDERABLE" :> 103) @@ ("RESERVED" :> 104) @@ ("RESET" :> 105) @@
    ("RESPONDING" :> 106) @@ ("RETRIED" :> 107) @@ ("RIGHT" :> 108) @@ ("RUNNING" :> 109) @@
    ("SENT" :> 110) @@ ("SHARED" :> 111) @@ ("SORTED" :> 112) @@ ("SPECIFIED" :> 113) @@
    ("SPLITTED" :> 114) @@ ("STALLED" :> 115) @@ ("STOPPED" :> 116) @@ ("SUCEEDED" :> 117) @@
    ("SUITABLE" :> 118) @@ ("SUPPORTED" :> 119) @@ ("SYNCHRONIZED" :> 120) @@
    ("TERMINATED" :> 121) @@ ("THROWN" :> 122) @@ ("TIMED_OUT" :> 123) @@
    ("TOO_COMPLEX" :> 124) @@ ("TOO_FEW" :> 125) @@ ("TOO_LARGE" :> 126) @@
    ("TOO_LONG" :> 127) @@ ("TOO_MANY" :> 128) @@ ("TOO_MUCH" :> 129) @@
    ("TOO_SIMPLE" :> 130) @@ ("TOO_SMALL" :> 131) @@ ("TRIGGERED" :> 132) @@ ("TRUE" :> 133) @@
    ("UNBLOCKED" :> 134) @@ ("UNDERFLOW" :> 135) @@ ("UNINITIALIZED" :> 136) @@
    ("UNINSTALLED" :> 137) @@ ("UNIQUE" :> 138) @@ ("UNLOADED" :> 139) @@
    ("UNLOCKED" :> 140) @@ ("UNSORTED" :> 141) @@ ("UP" :> 142) @@ ("UPDATED" :> 143) @@
    ("UPGRADED" :> 144) @@ ("UPLOADED" :> 145) @@ ("USED" :> 146) @@ ("VALID" :> 147) @@
    ("VISIBLE" :> 148) @@ ("WORKING" :> 149) @@ ("WRITABLE" :> 150) @@ ("WRONG" :> 151)

ERR_VALUE == [name \in DOMAIN ERR_ATTR |-> Shl(I64(ERR_ATTR[name]), ERR_BIT_A)]

\* Mutant: ERR_WRONG defined with the number of ERR_WRITABLE.
ERR_dup(name) == IF name = "WRONG" THEN ERR_VALUE["WRITABLE"] ELSE ERR_VALUE[name]

\* The value of the constant ERR_<name>.
ERR(name) == ERR_VALUE[name]

\* ERR_NOT_<name>: ( ERR_NOT | ERR_<name> ).
ERR_NOT_(name) == Or64(ERR_NOT, ERR(name))

\* case ERR_<name>: adj = "..." of the switch in strerror64: name :> adj.
AdjCase ==
    ("A" :> "A") @@ ("ACK" :> "ACK") @@ ("ACTIVE" :> "ACTIVE") @@ ("ALIGNED" :> "ALIGNED") @@
    ("ALLOWED" :> "ALLOWED") @@ ("ASSIGNED" :> "ASSIGNED") @@ ("ATTACHED" :> "ATTACHED") @@
    ("ATTEMPTED" :> "ATTEMPTED") @@ ("AUTHORIZED" :> "AUTHORIZED") @@
    ("AVAILABLE" :> "AVAILABLE") @@ ("BAD" :> "BAD") @@ ("BLOCKED" :> "BLOCKED") @@
    ("BROKEN" :> "BROKEN") @@ ("BUILT" :> "BUILT") @@ ("BUSY" :> "BUSY") @@
    ("CLOSED" :> "CLOSED") @@ ("COMPILED" :> "COMPILED") @@ ("COMPLETE" :> "COMPLETE") @@
    ("CONFLICTED" :> "CONFLICTED") @@ ("CONNECTED" :> "CONNECTED") @@
    ("CONSTRUCTED" :> "CONSTRUCTED") @@ ("CREATED" :> "CREATED") @@ ("DEFINED" :> "DEFINED") @@
    ("DENIED" :> "DENIED") @@ ("DESTRUCTED" :> "DESTRUCTED") @@ ("DETACHED" :> "DETACHED") @@
    ("DETECTED" :> "DETECTED") @@ ("DOWN" :> "DOWN") @@ ("DOWNLOADED" :> "DOWNLOADED") @@
    ("EMPTY" :> "EMPTY") @@ ("ENHANCED" :> "ENHANCED") @@ ("ENOUGH" :> "ENOUGH") @@
    ("EXCEEDED" :> "EXCEEDED") @@ ("EXCHANGED" :> "EXCHANGED") @@
    ("EXECUTABLE" :> "EXECUTABLE") @@ ("EXISTS" :> "EXISTS") @@ ("EXPIRED" :> "EXPIRED") @@
    ("EXTENDED" :> "EXTENDED") @@ ("FAILED" :> "FAILED") @@ ("FALSE" :> "FALSE") @@
    ("FATAL" :> "FATAL") @@ ("FORBIDDEN" :> "FORBIDDEN") @@ ("FORMATTED" :> "FORMATTED") @@
    ("FOUND" :> "FOUND") @@ ("FULL" :> "FULL") @@ ("GONE" :> "GONE") @@ ("GOOD" :> "GOOD") @@
    ("HALTED" :> "HALTED") @@ ("HOLD" :> "HOLD") @@ ("IDLE" :> "IDLE") @@
    ("ILLEGAL" :> "ILLEGAL") @@ ("IMPLEMENTED" :> "IMPLEMENTED") @@
    ("IN_PROGRESS" :> "IN PROGRESS") @@ ("IN_USE" :> "IN USE") @@
    ("INITIALIZED" :> "INITIALIZED") @@ ("INSTALLED" :> "INSTALLED") @@
    ("INTERRUPTED" :> "INTERRUPTED") @@ ("KNOWN" :> "KNOWN") @@ ("LINKED" :> "LINKED") @@
    ("LOADED" :> "LOADED") @@ ("LOCAL" :> "LOCAL") @@ ("LOCKED" :> "LOCKED") @@
    ("LOOPED" :> "LOOPED") @@ ("LOST" :> "LOST") @@ ("MISSING" :> "MISSING") @@
    ("MOUNTED" :> "MOUNTED") @@ ("NEEDED" :> "NEEDED") @@ ("NO" :> "NO") @@
    ("NO_SUCH" :> "NO SUCH") @@ ("OFF" :> "OFF") @@ ("ON" :> "ON") @@ ("ONLINE" :> "ONLINE") @@
    ("OPEN" :> "OPEN") @@ ("ORDERED" :> "ORDERED") @@ ("OUT_OF" :> "OUT OF") @@
    ("OUT_OF_RANGE" :> "OUT OF RANGE") @@ ("OVERFLOW" :> "OVERFLOW") @@
    ("PADDED" :> "PADDED") @@ ("PERMITTED" :> "PERMITTED") @@
    ("PROCESSABLE" :> "PROCESSABLE") @@ ("PROVIDED" :> "PROVIDED") @@
    ("REACHABLE" :> "REACHABLE") @@ ("READABLE" :> "READABLE") @@ ("RECEIVED" :> "RECEIVED") @@
    ("REFUSED" :> "REFUSED") @@ ("REGISTERED" :> "REGISTERED") @@ ("REJECTED" :> "REJECTED") @@
    ("RELEASED" :> "RELEASED") @@ ("REMOTE" :> "REMOTE") @@ ("RENDERABLE" :> "RENDERABLE") @@
    ("RESERVED" :> "RESERVED") @@ ("RESET" :> "RESET") @@ ("RESPONDING" :> "RESPONDING") @@
    ("RETRIED" :> "RETRIED") @@ ("RIGHT" :> "RIGHT") @@ ("RUNNING" :> "RUNNING") @@
    ("SENT" :> "SENT") @@ ("SPECIFIED" :> "SPECIFIED") @@ ("STALLED" :> "STALLED") @@
    ("STOPPED" :> "STOPPED") @@ ("SUCEEDED" :> "SUCEEDED") @@ ("SUITABLE" :> "SUITABLE") @@
    ("SUPPORTED" :> "SUPPORTED") @@ ("SYNCHRONIZED" :> "SYNCHRONIZED") @@
    ("TERMINATED" :> "TERMINATED") @@ ("THROWN" :> "THROWN") @@ ("TIMED_OUT" :> "TIMED OUT") @@
    ("TOO_COMPLEX" :> "TOO COMPLEX") @@ ("TOO_FEW" :> "TOO FEW") @@
    ("TOO_LARGE" :> "TOO LARGE") @@ ("TOO_LONG" :> "TOO LONG") @@ ("TOO_MANY" :> "TOO MANY") @@
    ("TOO_MUCH" :> "TOO MUCH") @@ ("TOO_SIMPLE" :> "TOO SIMPLE") @@
    ("TOO_SMALL" :> "TOO SMALL") @@ ("TRIGGERED" :> "TRIGGERED") @@ ("TRUE" :> "TRUE") @@
    ("UNIQUE" :> "UNIQUE") @@ ("UP" :> "UP") @@ ("UPDATED" :> "UPDATED") @@
    ("UPGRADED" :> "UPGRADED") @@ ("UPLOADED" :> "UPLOADED") @@ ("USED" :> "USED") @@
    ("VALID" :> "VALID") @@ ("WORKING" :> "WORKING") @@ ("WRITABLE" :> "WRITABLE") @@
    ("WRONG" :> "WRONG")

\* enum { NN_BLANK, NN_ACCESS, ... } of the demo: name :> value.
NN ==
    ("BLANK" :> 0) @@ ("ACCESS" :> 1) @@ ("ACCOUNT" :> 2) @@ ("ADDRESS" :> 3) @@
    ("ADMINISTRATOR" :> 4) @@ ("API" :> 5) @@ ("APPLICATION" :> 6) @@ ("ARCHIVE" :> 7) @@
    ("ARGUMENT" :> 8) @@ ("ASSET" :> 9) @@ ("AUDIO" :> 10) @@ ("AUTHENTICATION" :> 11) @@
    ("BINARY" :> 12) @@ ("BIRTHDATE" :> 13) @@ ("BLOB" :> 14) @@ ("BOX" :> 15) @@
    ("BROADCAST" :> 16) @@ ("CAPSULE" :> 17) @@ ("CHECKBOX" :> 18) @@ ("CINEMATIC" :> 19) @@
    ("CIRCLE" :> 20) @@ ("CLASS" :> 21) @@ ("CLIENT" :> 22) @@ ("CLOUD" :> 23) @@
    ("CODE" :> 24) @@ ("COMBO" :> 25) @@ ("COMMIT" :> 26) @@ ("COMPILATION" :> 27) @@
    ("COMPILER" :> 28) @@ ("COMPRESSION" :> 29) @@ ("CONTROLLER" :> 30) @@ ("COUNTRY" :> 31) @@
    ("CVS" :> 32) @@ ("CYPHERING" :> 33) @@ ("DAEMON" :> 34) @@ ("DATA" :> 35) @@
    ("DEPENDENCY" :> 36) @@ ("DESCRIPTOR" :> 37) @@ ("DEVICE" :> 38) @@ ("DIAGRAM" :> 39) @@
    ("DIRECTORY" :> 40) @@ ("DISK" :> 41) @@ ("DLL" :> 42) @@ ("DOMAIN" :> 43) @@
    ("DOWNLOAD" :> 44) @@ ("DRIVER" :> 45) @@ ("EDITOR" :> 46) @@ ("ENDPOINT" :> 47) @@
    ("ENGINE" :> 48) @@ ("EVALUATION" :> 49) @@ ("EVALUATOR" :> 50) @@ ("EVENT" :> 51) @@
    ("EXCEPTION" :> 52) @@ ("EXCHANGE" :> 53) @@ ("EXPECTATION" :> 54) @@ ("FETCH" :> 55) @@
    ("FILE" :> 56) @@ ("FLOAT" :> 57) @@ ("FLOW" :> 58) @@ ("FOLDER" :> 59) @@
    ("FONT" :> 60) @@ ("FORMAT" :> 61) @@ ("FUNCTION" :> 62) @@ ("GAME" :> 63) @@
    ("GAMEPAD" :> 64) @@ ("GATEWAY" :> 65) @@ ("GEOMETRY" :> 66) @@ ("GIZMO" :> 67) @@
    ("GRAPH" :> 68) @@ ("GRAPHICS" :> 69) @@ ("GROUP" :> 70) @@ ("HANDLE" :> 71) @@
    ("HARDWARE" :> 72) @@ ("HEADER" :> 73) @@ ("HID" :> 74) @@ ("HMD" :> 75) @@
    ("HOST" :> 76) @@ ("IDENTIFIER" :> 77) @@ ("INDEX" :> 78) @@ ("INPUT" :> 79) @@
    ("INTEGER" :> 80) @@ ("INTERFACE" :> 81) @@ ("INTERVAL" :> 82) @@ ("IO" :> 83) @@
    ("JOYSTICK" :> 84) @@ ("KEYBOARD" :> 85) @@ ("LENGTH" :> 86) @@ ("LEVEL" :> 87) @@
    ("LIBRARY" :> 88) @@ ("LIMIT" :> 89) @@ ("LINK" :> 90) @@ ("LINKAGE" :> 91) @@
    ("LINKER" :> 92) @@ ("LOCATION" :> 93) @@ ("LOGIN" :> 94) @@ ("LOOP" :> 95) @@
    ("MACHINE" :> 96) @@ ("MEDIA" :> 97) @@ ("MEMORY" :> 98) @@ ("MESH" :> 99) @@
    ("MESSAGE" :> 100) @@ ("METHOD" :> 101) @@ ("MODEL" :> 102) @@ ("MODULE" :> 103) @@
    ("MONITOR" :> 104) @@ ("MOUSE" :> 105) @@ ("NETWORK" :> 106) @@ ("NICKNAME" :> 107) @@
    ("NODE" :> 108) @@ ("NOTHING" :> 109) @@ ("NUMBER" :> 110) @@ ("OBJECT" :> 111) @@
    ("OPERATION" :> 112) @@ ("OPERATOR" :> 113) @@ ("ORIENTATION" :> 114) @@
    ("PACKAGE" :> 115) @@ ("PASSWORD" :> 116) @@ ("PATH" :> 117) @@ ("PATHFILE" :> 118) @@
    ("PAYMENT" :> 119) @@ ("PAYWALL" :> 120) @@ ("PEER" :> 121) @@ ("PERMISSION" :> 122) @@
    ("PHYSICS" :> 123) @@ ("PLATFORM" :> 124) @@ ("PLUGIN" :> 125) @@ ("POSITION" :> 126) @@
    ("POSTCONDITION" :> 127) @@ ("PRECONDITION" :> 128) @@ ("PROFILER" :> 129) @@
    ("PROTOCOL" :> 130) @@ ("PROXY" :> 131) @@ ("QUERY" :> 132) @@ ("RANGE" :> 133) @@
    ("RATIO" :> 134) @@ ("RECORD" :> 135) @@ ("RENDERER" :> 136) @@ ("REPOSITORY" :> 137) @@
    ("REQUEST" :> 138) @@ ("RESOURCE" :> 139) @@ ("REVISION" :> 140) @@ ("ROTATION" :> 141) @@
    ("ROUTE" :> 142) @@ ("RUNTIME" :> 143) @@ ("SCALE" :> 144) @@ ("SCREEN" :> 145) @@
    ("SCRIPT" :> 146) @@ ("SEARCH" :> 147) @@ ("SEQUENCE" :> 148) @@
    ("SERIALIZATION" :> 149) @@ ("SERVER" :> 150) @@ ("SERVICE" :> 151) @@ ("SHADER" :> 152) @@
    ("SHAPE" :> 153) @@ ("SIZE" :> 154) @@ ("SLIDER" :> 155) @@ ("SOFTWARE" :> 156) @@
    ("SOURCE" :> 157) @@ ("SPACE" :> 158) @@ ("SPHERE" :> 159) @@ ("SQUARE" :> 160) @@
    ("STACK" :> 161) @@ ("STACKTRACE" :> 162) @@ ("STAGE" :> 163) @@ ("STARTPOINT" :> 164) @@
    ("STREAM" :> 165) @@ ("STREAMING" :> 166) @@ ("STRING" :> 167) @@ ("STRUCT" :> 168) @@
    ("SUBSYSTEM" :> 169) @@ ("SYMBOL" :> 170) @@ ("SYSTEM" :> 171) @@ ("TEXT" :> 172) @@
    ("TIME" :> 173) @@ ("TOUCH" :> 174) @@ ("TRANSFORM" :> 175) @@ ("TRANSLATION" :> 176) @@
    ("TRANSPORT" :> 177) @@ ("TRIGGER" :> 178) @@ ("TRUETYPE" :> 179) @@ ("TYPE" :> 180) @@
    ("UPGRADE" :> 181) @@ ("UPLOAD" :> 182) @@ ("USER" :> 183) @@ ("USERNAME" :> 184) @@
    ("VALUE" :> 185) @@ ("VARIANT" :> 186) @@ ("VERSION" :> 187) @@ ("VISUALIZER" :> 188) @@
    ("WEBPAGE" :> 189) @@ ("WEBSITE" :> 190) @@ ("WEBVIEW" :> 191) @@ ("WIDGET" :> 192) @@
    ("WINDOW" :> 193) @@ ("ZIPCODE" :> 194)

\* case NN_<name>: return "..." of the demo glossary: name :> string.
GlossaryCase ==
    ("BLANK" :> "") @@ ("ACCESS" :> "ACCESS") @@ ("ACCOUNT" :> "ACCOUNT") @@
    ("ADDRESS" :> "ADDRESS") @@ ("ADMINISTRATOR" :> "ADMINISTRATOR") @@ ("API" :> "API") @@
    ("APPLICATION" :> "APPLICATION") @@ ("ARCHIVE" :> "ARCHIVE") @@
    ("ARGUMENT" :> "ARGUMENT") @@ ("ASSET" :> "ASSET") @@ ("AUDIO" :> "AUDIO") @@
    ("AUTHENTICATION" :> "AUTHENTICATION") @@ ("BINARY" :> "BINARY") @@
    ("BIRTHDATE" :> "BIRTHDATE") @@ ("BLOB" :> "BLOB") @@ ("BOX" :> "BOX") @@
    ("BROADCAST" :> "BROADCAST") @@ ("CAPSULE" :> "CAPSULE") @@ ("CHECKBOX" :> "CHECKBOX") @@
    ("CINEMATIC" :> "CINEMATIC") @@ ("CIRCLE" :> "CIRCLE") @@ ("CLASS" :> "CLASS") @@
    ("CLIENT" :> "CLIENT") @@ ("CLOUD" :> "CLOUD") @@ ("CODE" :> "CODE") @@
    ("COMBO" :> "COMBO") @@ ("COMMIT" :> "COMMIT") @@ ("COMPILATION" :> "COMPILATION") @@
    ("COMPILER" :> "COMPILER") @@ ("COMPRESSION" :> "COMPRESSION") @@
    ("CONTROLLER" :> "CONTROLLER") @@ ("COUNTRY" :> "COUNTRY") @@ ("CVS" :> "CVS") @@
    ("CYPHERING" :> "CYPHERING") @@ ("DAEMON" :> "DAEMON") @@ ("DATA" :> "DATA") @@
    ("DEPENDENCY" :> "DEPENDENCY") @@ ("DESCRIPTOR" :> "DESCRIPTOR") @@
    ("DEVICE" :> "DEVICE") @@ ("DIAGRAM" :> "DIAGRAM") @@ ("DIRECTORY" :> "DIRECTORY") @@
    ("DISK" :> "DISK") @@ ("DLL" :> "DLL") @@ ("DOMAIN" :> "DOMAIN") @@
    ("DOWNLOAD" :> "DOWNLOAD") @@ ("DRIVER" :> "DRIVER") @@ ("EDITOR" :> "EDITOR") @@
    ("ENDPOINT" :> "ENDPOINT") @@ ("ENGINE" :> "ENGINE") @@ ("EVALUATION" :> "EVALUATION") @@
    ("EVALUATOR" :> "EVALUATOR") @@ ("EVENT" :> "EVENT") @@ ("EXCEPTION" :> "EXCEPTION") @@
    ("EXCHANGE" :> "EXCHANGE") @@ ("EXPECTATION" :> "EXPECTATION") @@ ("FETCH" :> "FETCH") @@
    ("FILE" :> "FILE") @@ ("FLOAT" :> "FLOAT") @@ ("FLOW" :> "FLOW") @@
    ("FOLDER" :> "FOLDER") @@ ("FONT" :> "FONT") @@ ("FORMAT" :> "FORMAT") @@
    ("FUNCTION" :> "FUNCTION") @@ ("GAME" :> "GAME") @@ ("GAMEPAD" :> "GAMEPAD") @@
    ("GATEWAY" :> "GATEWAY") @@ ("GEOMETRY" :> "GEOMETRY") @@ ("GIZMO" :> "GIZMO") @@
    ("GRAPH" :> "GRAPH") @@ ("GRAPHICS" :> "GRAPHICS") @@ ("GROUP" :> "GROUP") @@
    ("HANDLE" :> "HANDLE") @@ ("HARDWARE" :> "HARDWARE") @@ ("HEADER" :> "HEADER") @@
    ("HID" :> "HID") @@ ("HMD" :> "HMD") @@ ("HOST" :> "HOST") @@
    ("IDENTIFIER" :> "IDENTIFIER") @@ ("INDEX" :> "INDEX") @@ ("INPUT" :> "INPUT") @@
    ("INTEGER" :> "INTEGER") @@ ("INTERFACE" :> "INTERFACE") @@ ("INTERVAL" :> "INTERVAL") @@
    ("IO" :> "IO") @@ ("JOYSTICK" :> "JOYSTICK") @@ ("KEYBOARD" :> "KEYBOARD") @@
    ("LENGTH" :> "LENGTH") @@ ("LEVEL" :> "LEVEL") @@ ("LIBRARY" :> "LIBRARY") @@
    ("LIMIT" :> "LIMIT") @@ ("LINK" :> "LINK") @@ ("LINKAGE" :> "LINKAGE") @@
    ("LINKER" :> "LINKER") @@ ("LOCATION" :> "LOCATION") @@ ("LOGIN" :> "LOGIN") @@
    ("LOOP" :> "LOOP") @@ ("MACHINE" :> "MACHINE") @@ ("MEDIA" :> "MEDIA") @@
    ("MEMORY" :> "MEMORY") @@ ("MESH" :> "MESH") @@ ("MESSAGE" :> "MESSAGE") @@
    ("METHOD" :> "METHOD") @@ ("MODEL" :> "MODEL") @@ ("MODULE" :> "MODULE") @@
    ("MONITOR" :> "MONITOR") @@ ("MOUSE" :> "MOUSE") @@ ("NETWORK" :> "NETWORK") @@
    ("NICKNAME" :> "NICKNAME") @@ ("NODE" :> "NODE") @@ ("NOTHING" :> "NOTHING") @@
    ("NUMBER" :> "NUMBER") @@ ("OBJECT" :> "OBJECT") @@ ("OPERATION" :> "OPERATION") @@
    ("OPERATOR" :> "OPERATOR") @@ ("ORIENTATION" :> "ORIENTATION") @@
    ("PACKAGE" :> "PACKAGE") @@ ("PASSWORD" :> "PASSWORD") @@ ("PATH" :> "PATH") @@
    ("PATHFILE" :> "PATHFILE") @@ ("PAYMENT" :> "PAYMENT") @@ ("PAYWALL" :> "PAYWALL") @@
    ("PEER" :> "PEER") @@ ("PERMISSION" :> "PERMISSION") @@ ("PHYSICS" :> "PHYSICS") @@
    ("PLATFORM" :> "PLATFORM") @@ ("PLUGIN" :> "PLUGIN") @@ ("POSITION" :> "POSITION") @@
    ("POSTCONDITION" :> "POSTCONDITION") @@ ("PRECONDITION" :> "PRECONDITION") @@
    ("PROFILER" :> "PROFILER") @@ ("PROTOCOL" :> "PROTOCOL") @@ ("PROXY" :> "PROXY") @@
    ("QUERY" :> "QUERY") @@ ("RANGE" :> "RANGE") @@ ("RATIO" :> "RATIO") @@
    ("RECORD" :> "RECORD") @@ ("RENDERER" :> "RENDERER") @@ ("REPOSITORY" :> "REPOSITORY") @@
    ("REQUEST" :> "REQUEST") @@ ("RESOURCE" :> "RESOURCE") @@ ("REVISION" :> "REVISION") @@
    ("ROTATION" :> "ROTATION") @@ ("ROUTE" :> "ROUTE") @@ ("RUNTIME" :> "RUNTIME") @@
    ("SCALE" :> "SCALE") @@ ("SCREEN" :> "SCREEN") @@ ("SCRIPT" :> "SCRIPT") @@
    ("SEARCH" :> "SEARCH") @@ ("SEQUENCE" :> "SEQUENCE") @@
    ("SERIALIZATION" :> "SERIALIZATION") @@ ("SERVER" :> "SERVER") @@
    ("SERVICE" :> "SERVICE") @@ ("SHADER" :> "SHADER") @@ ("SHAPE" :> "SHAPE") @@
    ("SIZE" :> "SIZE") @@ ("SLIDER" :> "SLIDER") @@ ("SOFTWARE" :> "SOFTWARE") @@
    ("SOURCE" :> "SOURCE") @@ ("SPACE" :> "SPACE") @@ ("SPHERE" :> "SPHERE") @@
    ("SQUARE" :> "SQUARE") @@ ("STACK" :> "STACK") @@ ("STACKTRACE" :> "STACKTRACE") @@
    ("STAGE" :> "STAGE") @@ ("STARTPOINT" :> "STARTPOINT") @@ ("STREAM" :> "STREAM") @@
    ("STREAMING" :> "STREAMING") @@ ("STRING" :> "STRING") @@ ("STRUCT" :> "STRUCT") @@
    ("SUBSYSTEM" :> "SUBSYSTEM") @@ ("SYMBOL" :> "SYMBOL") @@ ("SYSTEM" :> "SYSTEM") @@
    ("TEXT" :> "TEXT") @@ ("TIME" :> "TIME") @@ ("TOUCH" :> "TOUCH") @@
    ("TRANSFORM" :> "TRANSFORM") @@ ("TRANSLATION" :> "TRANSLATION") @@
    ("TRANSPORT" :> "TRANSPORT") @@ ("TRIGGER" :> "TRIGGER") @@ ("TRUETYPE" :> "TRUETYPE") @@
    ("TYPE" :> "TYPE") @@ ("UPGRADE" :> "UPGRADE") @@ ("UPLOAD" :> "UPLOAD") @@
    ("USER" :> "USER") @@ ("USERNAME" :> "USERNAME") @@ ("VALUE" :> "VALUE") @@
    ("VARIANT" :> "VARIANT") @@ ("VERSION" :> "VERSION") @@ ("VISUALIZER" :> "VISUALIZER") @@
    ("WEBPAGE" :> "WEBPAGE") @@ ("WEBSITE" :> "WEBSITE") @@ ("WEBVIEW" :> "WEBVIEW") @@
    ("WIDGET" :> "WIDGET") @@ ("WINDOW" :> "WINDOW") @@ ("ZIPCODE" :> "ZIPCODE")

\* Mutant: adj declared without its initialiser "", so that a code without a
\* case leaves the pointer at whatever it held.
Adjective_uninit(errno64) ==
    LET sel == And64(errno64, Shl(I64(255), ERR_BIT_A))
        hit == {name \in DOMAIN AdjCase : ERR(name) = sel}
    IN  IF hit = {} THEN GARBAGE ELSE AdjCase[CHOOSE name \in hit : TRUE]

\* Mutant: the switch on errno64 & ( 0xffffLL << ERR_BIT_A ), a mask that
\* reaches into the line field.
Adjective_wide(errno64) ==
    LET sel == And64(errno64, Shl(I64(65535), ERR_BIT_A))
        hit == {name \in DOMAIN AdjCase : ERR(name) = sel}
    IN  IF hit = {} THEN "" ELSE AdjCase[CHOOSE name \in hit : TRUE]

\* The switch( errno64 & ( 0xffLL << ERR_BIT_A ) ) of strerror64: the adjective
\* of the case whose constant equals the masked value, "" by default.
Adjective(errno64) ==
    LET sel == And64(errno64, Shl(I64(255), ERR_BIT_A))
        hit == {name \in DOMAIN AdjCase : ERR(name) = sel}
    IN  IF hit = {} THEN "" ELSE AdjCase[CHOOSE name \in hit : TRUE]

\* Mutant: the word order keyed on the attribute alone, the negate bit ignored.
IsSpecialOrder_attrOnly(type) ==
    LET attr == And64(type, Shl(I64(255), ERR_BIT_A))
    IN  attr \in {ERR("A"), ERR("NO"), ERR("NO_SUCH"), ERR("ENOUGH")}

\* Mutant: the negated pairs NOT A and NOT ENOUGH left out of the test.
IsSpecialOrder_plainOnly(type) ==
    type \in {ERR("A"), ERR("NO"), ERR("NO_SUCH"), ERR("ENOUGH")}

\* The test that selects the word order { neg, adj, noun }.
IsSpecialOrder(type) ==
    \/ type = ERR("A")
    \/ type = ERR_NOT_("A")
    \/ type = ERR("NO")
    \/ type = ERR("NO_SUCH")
    \/ type = ERR("ENOUGH")
    \/ type = ERR_NOT_("ENOUGH")

\* The glossary of the demo in error64.h.
glossary_demo(enumeration) ==
    LET hit == {name \in DOMAIN GlossaryCase : NN[name] = enumeration}
    IN  IF hit = {} THEN "??" ELSE GlossaryCase[CHOOSE name \in hit : TRUE]

\* The glossary of the demo in errno64.h.
glossary_blank(enumeration) == ""

\* A glossary of an application with LongNouns nouns, where the name of noun
\* number n has n characters.
LongNouns == 300

glossary_long(enumeration) ==
    IF enumeration <= LongNouns THEN Rep("N", enumeration) ELSE "??"

\* const char *glossary( int enumeration ), as linked into the build.
Glossaries == {"demo", "blank", "long"}

glossary(linked, enumeration) ==
    CASE linked = "demo" -> glossary_demo(enumeration)
      [] linked = "blank" -> glossary_blank(enumeration)
      [] linked = "long" -> glossary_long(enumeration)

(***************************************************************************)
(* strerror64 and strerror64ex.                                            *)
(***************************************************************************)
BufSize == 256

NounSize == BufSize - 48

\* The C libraries of the builds: glibc, glibc with _FORTIFY_SOURCE (strcpy
\* into an array of known size aborts on overflow; sprintf clears the first
\* byte of its destination before formatting), and the Microsoft runtime.
Libcs == {"glibc", "glibc_fortify", "msvcrt"}

\* Mutant: the noun code read through the mask 0xffff.
GlossaryArg_word(errno64) == Int32(And64(errno64, I64(65535)))

\* The argument of the call glossary( errno64 & 0x7fff ), converted to int.
GlossaryArg(errno64) == Int32(And64(errno64, I64(32767)))

\* strerror64( buf256, errno64 ).  buf is the region at buf256 on return, noun
\* the region at the local array, asked the arguments glossary was called
\* with, aborted whether the fortified strcpy ended the process.
strerror64(libc, linked, buf256, errno64) ==
    IF NonNegative(errno64)
    THEN [buf |-> Store(buf256, 0, NUL), noun |-> "", asked |-> <<>>,
          aborted |-> FALSE, parts |-> <<>>]
    ELSE
    LET arg  == GlossaryArg(errno64)
        name == glossary(linked, arg)
        noun == Strcpy(Rep(GARBAGE, NounSize), name)
        neg  == IF And64(errno64, Shl(I64(1), ERR_BIT_N)) # I64(0) THEN "NOT" ELSE ""
        adj  == Adjective(errno64)
        common  == <<CStr(noun), neg, adj>>
        special == <<neg, adj, CStr(noun)>>
        type == And64(errno64, Shl(I64(511), ERR_BIT_A))
        use  == IF IsSpecialOrder(type) THEN special ELSE common
        b1 == Strcpy(buf256, use[1])
        b2 == Strcat(b1, IF use[1] # "" THEN " " ELSE "")
        b3 == Strcat(b2, use[2])
        b4 == Strcat(b3, IF use[2] # "" THEN " " ELSE "")
        b5 == Strcat(b4, use[3])
    IN  IF libc = "glibc_fortify" /\ Len(name) + 1 > NounSize
        THEN [buf |-> buf256, noun |-> Rep(GARBAGE, NounSize), asked |-> <<arg>>,
              aborted |-> TRUE, parts |-> <<>>]
        ELSE [buf |-> Store(b5, BufSize - 1, NUL), noun |-> noun, asked |-> <<arg>>,
              aborted |-> FALSE, parts |-> use]

\* %p of (void *)error64 with 64-bit pointers.
PtrFmt(libc, v) ==
    IF libc = "msvcrt" THEN HexDigits(v, 15, "0123456789ABCDEF")
    ELSE IF v = I64(0) THEN "(nil)"
    ELSE "0x" \o StripZeros(HexDigits(v, 15, "0123456789abcdef"))

\* The text after the message in the error format of strerror64ex.
FieldSuffix(libc, error64) ==
    " ; ERR_" \o PtrFmt(libc, error64)
    \o " error=" \o Dec(ERROR64_GET_E(error64))
    \o ",api=" \o Dec(ERROR64_GET_V(error64))
    \o ",rev=" \o Dec(ERROR64_GET_R(error64))
    \o ",line=" \o Dec(ERROR64_GET_L(error64))
    \o ",neg=" \o Dec(ERROR64_GET_N(error64))
    \o ",attr=" \o Dec(ERROR64_GET_A(error64))
    \o ",noun=" \o Dec(ERROR64_GET_U(error64))

\* sprintf( dst, "%s...", src, ... ) where src points into dst: the copy
\* overlaps.  glibc and msvcrt measure src and copy it onto itself; the
\* fortified sprintf has cleared dst[0] by then, and reads src as "".
OverlappedArg(libc, dst) == IF libc = "glibc_fortify" THEN "" ELSE CStr(dst)

\* The sprintf of strerror64ex for an error code, given the result r of
\* strerror64( buf256, error64 ): it formats r.buf into the same buffer.
strerror64ex_sprintf(libc, r, error64) ==
    IF r.aborted THEN r
    ELSE [r EXCEPT !.buf =
            Strcpy(r.buf, OverlappedArg(libc, r.buf) \o FieldSuffix(libc, error64))]

\* strerror64ex( buf256, error64 ).
strerror64ex(libc, linked, buf256, error64) ==
    IF NonNegative(error64)
    THEN [buf |-> Strcpy(buf256, "No error ; ERR_" \o PtrFmt(libc, error64)),
          noun |-> "", asked |-> <<>>, aborted |-> FALSE, parts |-> <<>>]
    ELSE strerror64ex_sprintf(libc, strerror64(libc, linked, buf256, error64), error64)

(***************************************************************************)
(* fperror64 and perror64 of errno64.h.                                    *)
(***************************************************************************)
\* char buf256[256] = {0}; the local buffer of fperror64.
buf256_zeroed == Rep(NUL, BufSize)

\* The line fperror64( fd, txt ) prints when errno64 holds v and
\* strerror64( buf256, errno64 ) on the local buffer gave r.
fperror64_line(libc, txt, v, r) ==
    IF NonNegative(v)
    THEN txt \o " : No error ; ERR_" \o PtrFmt(libc, v) \o "\n"
    ELSE txt \o " : " \o CStr(r.buf) \o FieldSuffix(libc, v) \o "\n"

\* What fperror64 leaves behind, given the result r of its call of
\* strerror64: the line on fd, errno64 (set to `after`), and whether the
\* process was ended inside it.
fperror64_done(libc, txt, v, r, after) ==
    [out |-> fperror64_line(libc, txt, v, r), errno64 |-> after,
     aborted |-> ~NonNegative(v) /\ r.aborted]

\* Mutant: fperror64 that resets errno64 once it has printed it.
fperror64_clear(libc, linked, txt, v) ==
    fperror64_done(libc, txt, v, strerror64(libc, linked, buf256_zeroed, v), I64(0))

\* fperror64( fd, txt ) with errno64 = v on entry.  errno64 is only read.
fperror64(libc, linked, txt, v) ==
    fperror64_done(libc, txt, v, strerror64(libc, linked, buf256_zeroed, v), v)

\* perror64( txt ): fperror64( stdout, txt ).
perror64(libc, linked, txt, v) == fperror64(libc, linked, txt, v)

(***************************************************************************)
(* The program: a build (C library and linked glossary), a call site that  *)
(* makes an error code, and a caller that renders it into its buffer.      *)
(***************************************************************************)
VARIABLES
    libc,      \* the C library of the build
    linked,    \* the glossary linked into the build
    site,      \* the call site that made the code, with its inputs
    errcode,   \* the int64_t code in hand
    buf256,    \* the caller's char buf256[256]
    hist       \* the calls of strerror64 / strerror64ex so far, with outcomes

\* Threads that each set errno64 and render it into a buffer of their own.
VARIABLES
    errno64Cell,  \* the storage of errno64, cell by cell
    nounArray,    \* the storage of strerror64's char noun[256-48], cell by cell
    lastSet,      \* per thread, the value it last assigned to errno64
    thread        \* per thread, its position and the locals of its strerror64 call

tvars == <<errno64Cell, nounArray, lastSet, thread>>

vars == <<libc, linked, site, errcode, buf256, hist, errno64Cell, nounArray, lastSet, thread>>

Threads == {1, 2}

\* Mutant: errno64 declared without ERR_TLS, one cell for the process.
ErrnoCell_global(t) == 1

\* ERR_TLS(int64_t) errno64: the cell a thread's use of errno64 refers to.
ErrnoCell(t) == t

\* Mutant: noun declared static, one array for all calls.
NounCell_static(t) == 1

\* char noun[256-48]; has automatic storage: the array an activation of
\* strerror64 in thread t refers to.
NounCell(t) == t

\* A thread at its start: errno64 = 0, nothing called yet.
ThreadAtStart ==
    [pc |-> "main", arg |-> {}, buf |-> "", neg |-> "", adj |-> "", use |-> <<>>,
     concurrent |-> FALSE]

ThreadsAtStart(bufs, nouns) ==
    /\ errno64Cell = [t \in Threads |-> {}]
    /\ nounArray = [t \in Threads |-> nouns]
    /\ lastSet = [t \in Threads |-> {}]
    /\ thread = [t \in Threads |-> [ThreadAtStart EXCEPT !.buf = bufs]]

\* Rendering calls per run.
MaxCalls == 2

\* The descriptor expression of a call site: ( ERR_NOT | ERR_x | NN_y ), OR-ed
\* with the bits `high` a caller passes outside the low 24.
Descriptor(neg, attr, noun, high) ==
    Or64(Or64(Or64(IF neg = 1 THEN ERR_NOT ELSE I64(0), Shl(I64(attr), ERR_BIT_A)),
              I64(noun)),
         high)

NoHigh == I64(0)

\* Call sites that exercise the codec: every field at its least and greatest
\* value and one past it, descriptors with and without bits above bit 23.
CodecSites ==
    [ver : {0, 127, 128}, rev : {0, 65535, 65536}, line : {1, 65535, 65536},
     neg : {0}, attr : {0}, noun : {0}, high : {NoHigh}]
    \cup
    [ver : {127, 128}, rev : {65535, 65536}, line : {65535, 65536},
     neg : {1}, attr : {255}, noun : {32767}, high : {NoHigh}]
    \cup
    [ver : {0, 127}, rev : {0}, line : {1},
     neg : {1}, attr : {49}, noun : {41},
     high : {Shl(I64(1), ERR_BIT_L), Shl(I64(1), ERR_BIT_R), Shl(I64(1), ERR_BIT_E)}]

\* Call sites in user code (no version, no revision) that exercise the
\* renderer: every attribute code on its own, the attributes of the word
\* order rule with and without negation and noun, and nouns whose names reach
\* and pass the size of the noun array.
AttrCodes == (0 .. 152) \cup {255}

KeyAttrs == {0, ERR_ATTR["A"], ERR_ATTR["COLLIDED"], ERR_ATTR["ENOUGH"], ERR_ATTR["FOUND"],
             ERR_ATTR["FULL"], ERR_ATTR["NO"], ERR_ATTR["NO_SUCH"]}

KeyNouns == {NN["BLANK"], NN["DIRECTORY"], NN["DISK"], NN["FILE"], NN["SPACE"], 195}

LongNames == {NounSize - 1, NounSize, LongNouns}

RenderSites ==
    [ver : {0}, rev : {0}, line : {1033},
     neg : {0}, attr : AttrCodes, noun : {0}, high : {NoHigh}]
    \cup
    [ver : {0}, rev : {0}, line : {1033},
     neg : {0, 1}, attr : KeyAttrs, noun : KeyNouns, high : {NoHigh}]
    \cup
    [ver : {0}, rev : {0}, line : {1033},
     neg : {1}, attr : {ERR_ATTR["A"], ERR_ATTR["OUT_OF_RANGE"]}, noun : LongNames,
     high : {NoHigh}]

Sites == CodecSites \cup RenderSites

\* Codes that are not errors: 0, 1, a descriptor without the error bit, and
\* the greatest int64_t.
Literals ==
    {I64(0), I64(1), Descriptor(1, ERR_ATTR["FOUND"], NN["FILE"], NoHigh),
     Bit \ {WordBits - 1}}

NoSite == [made |-> "none", ver |-> 0, rev |-> 0, line |-> 0,
           neg |-> 0, attr |-> 0, noun |-> 0, high |-> NoHigh]

\* The builds of the repository: every C library with the glossary of the
\* error64.h demo, and glibc with the glossary of the errno64.h demo.
Builds == (Libcs \X {"demo"}) \cup {<<"glibc", "blank">>}

\* Builds of an application that links the glossary with long names.
LongBuilds == {"glibc", "glibc_fortify"} \X {"long"}

\* char buf256[256]; of the caller, uninitialised.
InitialBufs == {Rep(GARBAGE, BufSize)}

Start(builds) ==
    /\ \E b \in builds : libc = b[1] /\ linked = b[2]
    /\ site = NoSite
    /\ errcode = I64(0)
    /\ buf256 \in InitialBufs
    /\ hist = <<>>
    /\ ThreadsAtStart("", "")

Init == Start(Builds)

InitLong == Start(LongBuilds)

\* errcode = ERROR64( x ) at a call site.
MakeError(s) ==
    /\ site.made = "none"
    /\ site' = [made |-> "ERROR64", ver |-> s.ver, rev |-> s.rev, line |-> s.line,
                neg |-> s.neg, attr |-> s.attr, noun |-> s.noun, high |-> s.high]
    /\ errcode' = ERROR64(s.ver, s.rev, s.line, Descriptor(s.neg, s.attr, s.noun, s.high))
    /\ UNCHANGED <<libc, linked, buf256, hist>>
    /\ UNCHANGED tvars

\* errcode = a value that is not an error, as in TEST( 0, "" ).
TakeLiteral(v) ==
    /\ site.made = "none"
    /\ site' = [NoSite EXCEPT !.made = "literal"]
    /\ errcode' = v
    /\ UNCHANGED <<libc, linked, buf256, hist>>
    /\ UNCHANGED tvars

Alive == \A i \in 1 .. Len(hist) : hist[i].status = "returned"

CanCall == site.made # "none" /\ Alive /\ Len(hist) < MaxCalls

\* The outcome of a call whose result record is r: a call that wrote past
\* the end of an array has undefined behaviour, and either ends the process
\* or returns with the neighbouring bytes clobbered.
Outcome(op, r, survives) ==
    [op        |-> op,
     status    |-> IF r.aborted \/ ~survives THEN "crashed" ELSE "returned",
     str       |-> IF r.aborted \/ ~survives THEN "" ELSE CStr(SubSeq(r.buf, 1, BufSize)),
     bufBytes  |-> Len(r.buf),
     nounBytes |-> Len(r.noun),
     asked     |-> r.asked,
     parts     |-> r.parts]

Overflowed(r) == Len(r.buf) > BufSize \/ Len(r.noun) > NounSize

Call(op, r) ==
    /\ CanCall
    /\ \E survives \in BOOLEAN :
         /\ survives \/ Overflowed(r)
         /\ hist' = Append(hist, Outcome(op, r, survives))
    /\ buf256' = SubSeq(r.buf, 1, BufSize)
    /\ UNCHANGED <<libc, linked, site, errcode>>
    /\ UNCHANGED tvars

CallStrerror64 ==
    /\ CanCall
    /\ \E r \in {strerror64(libc, linked, buf256, errcode)} : Call("strerror64", r)

CallStrerror64ex ==
    /\ CanCall
    /\ \E r \in {strerror64ex(libc, linked, buf256, errcode)} : Call("strerror64ex", r)

Next ==
    \/ \E s \in Sites : MakeError(s)
    \/ \E v \in Literals : TakeLiteral(v)
    \/ CallStrerror64
    \/ CallStrerror64ex

Spec == Init /\ [][Next]_vars

\* The same program linked with the glossary of long names.
SpecLong == InitLong /\ [][Next]_vars

(***************************************************************************)
(* A caller that renders one code after another into the same buffer, as   *)
(* main does with TEST( errcode, str ).                                    *)
(***************************************************************************)
\* Rendering calls per run of the test sequence.
MaxRenders == 3

\* Two descriptors, NN_FILE | ERR_NOT_FOUND and NN_DIRECTORY | ERR_A, each at
\* a call site in user code and at one in a library whose version, revision
\* and line are at their greatest values.
SeqSites ==
    [ver : {0}, rev : {0}, line : {1024},
     neg : {1}, attr : {ERR_ATTR["FOUND"]}, noun : {NN["FILE"]}, high : {NoHigh}]
    \cup
    [ver : {0}, rev : {0}, line : {1024},
     neg : {0}, attr : {ERR_ATTR["A"]}, noun : {NN["DIRECTORY"]}, high : {NoHigh}]
    \cup
    [ver : {127}, rev : {65535}, line : {65535},
     neg : {1}, attr : {ERR_ATTR["FOUND"]}, noun : {NN["FILE"]}, high : {NoHigh}]
    \cup
    [ver : {127}, rev : {65535}, line : {65535},
     neg : {0}, attr : {ERR_ATTR["A"]}, noun : {NN["DIRECTORY"]}, high : {NoHigh}]

\* The codes of the sequence: ERROR64( x ) at each site, and the literal 0.
SeqCodes ==
    {ERROR64(s.ver, s.rev, s.line, Descriptor(s.neg, s.attr, s.noun, s.high)) : s \in SeqSites}
    \cup {I64(0)}

\* char buf256[256]; uninitialised, or zeroed as in fperror64.
SeqBufs == {Rep(GARBAGE, BufSize), Rep(NUL, BufSize)}

SeqBuilds == Libcs \X {"demo"}

InitSeq ==
    /\ \E b \in SeqBuilds : libc = b[1] /\ linked = b[2]
    /\ site = NoSite
    /\ errcode = I64(0)
    /\ buf256 \in SeqBufs
    /\ hist = <<>>
    /\ ThreadsAtStart("", "")

\* One call op( buf256, c ) of the sequence; the history keeps the code and
\* the bytes the buffer held before the call.
CanRender == Alive /\ Len(hist) < MaxRenders

Render(op, c, r) ==
    /\ errcode' = c
    /\ \E survives \in BOOLEAN :
         /\ survives \/ Overflowed(r)
         /\ hist' = Append(hist, [code |-> c, before |-> buf256] @@ Outcome(op, r, survives))
    /\ buf256' = SubSeq(r.buf, 1, BufSize)
    /\ UNCHANGED <<libc, linked, site>>
    /\ UNCHANGED tvars

\* TEST( c, str ): strerror64( buf256, c ).
TestStrerror64(c) ==
    /\ CanRender
    /\ \E r \in {strerror64(libc, linked, buf256, c)} : Render("strerror64", c, r)

\* strerror64ex( buf256, c ), as in the showcase of main.
TestStrerror64ex(c) ==
    /\ CanRender
    /\ \E r \in {strerror64ex(libc, linked, buf256, c)} : Render("strerror64ex", c, r)

NextSeq ==
    \/ \E c \in SeqCodes : TestStrerror64(c)
    \/ \E c \in SeqCodes : TestStrerror64ex(c)

SpecSeq == InitSeq /\ [][NextSeq]_vars

(***************************************************************************)
(* Two threads of one process.  Each assigns errno64 and calls             *)
(* strerror64( buf256, errno64 ) with a buffer of its own; the call runs   *)
(* statement by statement and the threads interleave at every statement.   *)
(***************************************************************************)
\* The codes the threads assign: the showcase of main in error64.h, a code of
\* the special word order, and the code of main in errno64.h.
ThreadCodes ==
    {ERROR64(0, 0, 1022, Descriptor(1, ERR_ATTR["AVAILABLE"], NN["SERVICE"], NoHigh)),
     ERROR64(0, 0, 1052, Descriptor(1, ERR_ATTR["A"], NN["DIRECTORY"], NoHigh)),
     ERROR64(0, 0, 58, Descriptor(1, ERR_ATTR["VALID"], 0, NoHigh))}

InitThreads ==
    /\ libc = "glibc" /\ linked = "demo"
    /\ site = NoSite
    /\ errcode = I64(0)
    /\ buf256 = ""
    /\ hist = <<>>
    /\ ThreadsAtStart(Rep(GARBAGE, BufSize), Rep(GARBAGE, NounSize))

\* The statements of strerror64 a thread can be at.
InCall(t) == thread[t].pc \notin {"main", "done"}

\* Thread t moves from statement `from` to statement `to` with its locals
\* changed to `locals`.
Goto(t, from, to, locals) ==
    /\ thread[t].pc = from
    /\ thread' = [thread EXCEPT ![t] = [locals EXCEPT !.pc = to]]

\* What an element of common[] / special[] points at when it is read.
Deref(t, ptr) ==
    CASE ptr = "noun" -> CStr(nounArray[NounCell(t)])
      [] ptr = "neg" -> thread[t].neg
      [] ptr = "adj" -> thread[t].adj

\* errno64 = c, in thread t.
SetErrno(t, c) ==
    /\ thread[t].pc = "main"
    /\ errno64Cell' = [errno64Cell EXCEPT ![ErrnoCell(t)] = c]
    /\ lastSet' = [lastSet EXCEPT ![t] = c]
    /\ UNCHANGED <<libc, linked, site, errcode, buf256, hist, nounArray, thread>>

\* strerror64( buf256, errno64 ): thread t reads errno64 for the argument and
\* enters the function.
EnterStrerror64(t) ==
    /\ Goto(t, "main", "L423",
            [thread[t] EXCEPT !.arg = errno64Cell[ErrnoCell(t)],
                              !.concurrent = \E u \in Threads \ {t} : InCall(u)])
    /\ UNCHANGED <<libc, linked, site, errcode, buf256, hist, errno64Cell, nounArray, lastSet>>

\* if( errno64 >= 0 ) return (buf256[0] = '\0', buf256);  then the
\* declarations const char *neg = "", *adj = ""; char noun[256-48];
SignTest(t) ==
    /\ \/ /\ NonNegative(thread[t].arg)
          /\ Goto(t, "L423", "done", [thread[t] EXCEPT !.buf = Store(@, 0, NUL)])
       \/ /\ ~NonNegative(thread[t].arg)
          /\ Goto(t, "L423", "L426", [thread[t] EXCEPT !.neg = "", !.adj = ""])
    /\ UNCHANGED <<libc, linked, site, errcode, buf256, hist, errno64Cell, nounArray, lastSet>>

\* strcpy( noun, glossary(errno64 & 0x7fff) );
CopyNoun(t) ==
    /\ Goto(t, "L426", "L427", thread[t])
    /\ nounArray' = [nounArray EXCEPT ![NounCell(t)] =
                         Strcpy(@, glossary(linked, GlossaryArg(thread[t].arg)))]
    /\ UNCHANGED <<libc, linked, site, errcode, buf256, hist, errno64Cell, lastSet>>

\* if( errno64 & ( 1LL << ERR_BIT_N ) ) neg = "NOT";
TestNegate(t) ==
    /\ Goto(t, "L427", "L430",
            [thread[t] EXCEPT !.neg =
                IF And64(thread[t].arg, Shl(I64(1), ERR_BIT_N)) # I64(0) THEN "NOT" ELSE @])
    /\ UNCHANGED <<libc, linked, site, errcode, buf256, hist, errno64Cell, nounArray, lastSet>>

\* switch( errno64 & ( 0xffLL << ERR_BIT_A ) ) { ... case ERR_x: adj = "..." }
SwitchAdjective(t) ==
    /\ Goto(t, "L430", "L560", [thread[t] EXCEPT !.adj = Adjective(thread[t].arg)])
    /\ UNCHANGED <<libc, linked, site, errcode, buf256, hist, errno64Cell, nounArray, lastSet>>

\* const char *common[] = { noun, neg, adj }, *special[] = { neg, adj, noun },
\* **use = common;  if( type == ... ) use = special;
ChooseOrder(t) ==
    /\ Goto(t, "L560", "L567",
            [thread[t] EXCEPT !.use =
                IF IsSpecialOrder(And64(thread[t].arg, Shl(I64(511), ERR_BIT_A)))
                THEN <<"neg", "adj", "noun">> ELSE <<"noun", "neg", "adj">>])
    /\ UNCHANGED <<libc, linked, site, errcode, buf256, hist, errno64Cell, nounArray, lastSet>>

\* strcpy( buf256, (use)[0] );
CopyFirst(t) ==
    /\ Goto(t, "L567", "L568",
            [thread[t] EXCEPT !.buf = Strcpy(@, Deref(t, thread[t].use[1]))])
    /\ UNCHANGED <<libc, linked, site, errcode, buf256, hist, errno64Cell, nounArray, lastSet>>

\* strcat( buf256, (use)[0][0] ? " " : "" );
SeparateFirst(t) ==
    /\ Goto(t, "L568", "L569",
            [thread[t] EXCEPT !.buf =
                Strcat(@, IF Deref(t, thread[t].use[1]) # "" THEN " " ELSE "")])
    /\ UNCHANGED <<libc, linked, site, errcode, buf256, hist, errno64Cell, nounArray, lastSet>>

\* strcat( buf256, (use)[1] );
CatSecond(t) ==
    /\ Goto(t, "L569", "L570",
            [thread[t] EXCEPT !.buf = Strcat(@, Deref(t, thread[t].use[2]))])
    /\ UNCHANGED <<libc, linked, site, errcode, buf256, hist, errno64Cell, nounArray, lastSet>>

\* strcat( buf256, (use)[1][0] ? " " : "" );
SeparateSecond(t) ==
    /\ Goto(t, "L570", "L571",
            [thread[t] EXCEPT !.buf =
                Strcat(@, IF Deref(t, thread[t].use[2]) # "" THEN " " ELSE "")])
    /\ UNCHANGED <<libc, linked, site, errcode, buf256, hist, errno64Cell, nounArray, lastSet>>

\* strcat( buf256, (use)[2] );
CatThird(t) ==
    /\ Goto(t, "L571", "L572",
            [thread[t] EXCEPT !.buf = Strcat(@, Deref(t, thread[t].use[3]))])
    /\ UNCHANGED <<libc, linked, site, errcode, buf256, hist, errno64Cell, nounArray, lastSet>>

\* return (buf256[255] = '\0', buf256);
Terminate(t) ==
    /\ Goto(t, "L572", "done", [thread[t] EXCEPT !.buf = Store(@, BufSize - 1, NUL)])
    /\ UNCHANGED <<libc, linked, site, errcode, buf256, hist, errno64Cell, nounArray, lastSet>>

NextThreads ==
    \E t \in Threads :
        \/ \E c \in ThreadCodes : SetErrno(t, c)
        \/ EnterStrerror64(t)
        \/ SignTest(t)
        \/ CopyNoun(t)
        \/ TestNegate(t)
        \/ SwitchAdjective(t)
        \/ ChooseOrder(t)
        \/ CopyFirst(t)
        \/ SeparateFirst(t)
        \/ CatSecond(t)
        \/ SeparateSecond(t)
        \/ CatThird(t)
        \/ Terminate(t)

SpecThreads == InitThreads /\ [][NextThreads]_vars

(***************************************************************************)
(* A caller that assigns errno64 and shows it, as the two demos do:        *)
(* errno64 = ERROR64( ... ); then strerror64( buf256, errno64 ),           *)
(* strerror64ex( buf256, errno64 ), fperror64( fd, txt ) or perror64( txt ).*)
(***************************************************************************)
\* Calls that show errno64, per run.
MaxShows == 2

\* The thread of main.
MainThread == 1

\* The values assigned to errno64: 0, the showcase of main in error64.h and
\* the code of main in errno64.h.
ErrnoCodes ==
    {I64(0),
     ERROR64(0, 0, 1022, Descriptor(1, ERR_ATTR["AVAILABLE"], NN["SERVICE"], NoHigh)),
     ERROR64(0, 0, 58, Descriptor(1, ERR_ATTR["VALID"], 0, NoHigh))}

\* The texts passed to fperror64 and perror64.
Texts == {"test", ""}

InitErrno ==
    /\ \E b \in Builds : libc = b[1] /\ linked = b[2]
    /\ site = NoSite
    /\ errcode = I64(0)
    /\ buf256 \in InitialBufs
    /\ hist = <<>>
    /\ ThreadsAtStart("", "")

\* errno64, read in the thread of main.
Errno64 == errno64Cell[ErrnoCell(MainThread)]

CanShow == Alive /\ Len(hist) < MaxShows

\* errno64 = c;
AssignErrno(c) ==
    /\ Alive
    /\ errno64Cell' = [errno64Cell EXCEPT ![ErrnoCell(MainThread)] = c]
    /\ lastSet' = [lastSet EXCEPT ![MainThread] = c]
    /\ UNCHANGED <<libc, linked, site, errcode, buf256, hist, nounArray, thread>>

\* A call op( buf256, errno64 ): the argument is passed by value, the result
\* is written at buf256.
Show(op, r) ==
    /\ \E survives \in BOOLEAN :
         /\ survives \/ Overflowed(r)
         /\ hist' = Append(hist, [code |-> Errno64] @@ Outcome(op, r, survives))
    /\ buf256' = SubSeq(r.buf, 1, BufSize)
    /\ UNCHANGED <<libc, linked, site, errcode, errno64Cell, nounArray, lastSet, thread>>

\* strerror64( buf256, errno64 )
ShowStrerror64 ==
    /\ CanShow
    /\ \E v \in {Errno64} : \E r \in {strerror64(libc, linked, buf256, v)} : Show("strerror64", r)

\* strerror64ex( buf256, errno64 )
ShowStrerror64ex ==
    /\ CanShow
    /\ \E v \in {Errno64} : \E r \in {strerror64ex(libc, linked, buf256, v)} : Show("strerror64ex", r)

\* A call of fperror64 or perror64 whose result record is r: a line on fd,
\* errno64 as the function leaves it; the caller's buf256 is not involved.
Printed(op, fd, txt, r) ==
    /\ hist' = Append(hist, [op |-> op, fd |-> fd, txt |-> txt, code |-> Errno64,
                             status |-> IF r.aborted THEN "crashed" ELSE "returned",
                             str |-> IF r.aborted THEN "" ELSE r.out])
    /\ errno64Cell' = [errno64Cell EXCEPT ![ErrnoCell(MainThread)] = r.errno64]
    /\ UNCHANGED <<libc, linked, site, errcode, buf256, nounArray, lastSet, thread>>

\* fperror64( stderr, txt )
PrintFperror64(txt) ==
    /\ CanShow
    /\ \E v \in {Errno64} : \E r \in {fperror64(libc, linked, txt, v)} : Printed("fperror64", "stderr", txt, r)

\* perror64( txt )
PrintPerror64(txt) ==
    /\ CanShow
    /\ \E v \in {Errno64} : \E r \in {perror64(libc, linked, txt, v)} : Printed("perror64", "stdout", txt, r)

NextErrno ==
    \/ \E c \in ErrnoCodes : AssignErrno(c)
    \/ ShowStrerror64
    \/ ShowStrerror64ex
    \/ \E txt \in Texts : PrintFperror64(txt)
    \/ \E txt \in Texts : PrintPerror64(txt)

SpecErrno == InitErrno /\ [][NextErrno]_vars

(***************************************************************************)
(* Properties.                                                             *)
(***************************************************************************)
Made == site.made = "ERROR64"

\* The code in hand is negative: its bit 63 is set.
IsError == ERROR64_GET_E(errcode) = 1

\* The descriptor the call site passed to ERROR64.
SiteX == Descriptor(site.neg, site.attr, site.noun, site.high)

\* The calls so far of one function that returned.
Returned(op) == {i \in 1 .. Len(hist) : hist[i].op = op /\ hist[i].status = "returned"}

\* The words of a string: its maximal runs of characters other than space.
RECURSIVE WordEnd(_, _)
WordEnd(s, n) == IF n < Len(s) /\ CharAt(s, n + 1) # " " THEN WordEnd(s, n + 1) ELSE n

RECURSIVE Words(_)
Words(s) ==
    IF s = "" THEN <<>>
    ELSE IF CharAt(s, 1) = " " THEN Words(Tail(s))
    ELSE LET n == WordEnd(s, 1) IN <<SubSeq(s, 1, n)>> \o Words(From(s, n))

\* The strings of a sequence that are not empty, joined by one space each.
RECURSIVE JoinNonEmpty(_)
JoinNonEmpty(ws) ==
    IF ws = <<>> THEN ""
    ELSE LET rest == JoinNonEmpty(Tail(ws))
         IN  IF Head(ws) = "" THEN rest
             ELSE IF rest = "" THEN Head(ws)
             ELSE Head(ws) \o " " \o rest

\* The name of a constant with its underscores as spaces.
RECURSIVE Phrase(_)
Phrase(name) ==
    IF name = "" THEN ""
    ELSE (IF CharAt(name, 1) = "_" THEN " " ELSE CharAt(name, 1)) \o Phrase(Tail(name))

\* The name of the ERR_ constant of attribute code n, n in 1..151.
AttrName(n) == CHOOSE name \in DOMAIN ERR_ATTR : ERR_ATTR[name] = n

IsPrefix(p, s) == Len(p) <= Len(s) /\ SubSeq(s, 1, Len(p)) = p

\* The (negation, attribute) pairs A, NOT A, NO, NO SUCH, ENOUGH, NOT ENOUGH.
ExceptionPairs ==
    {<<0, ERR_ATTR["A"]>>, <<1, ERR_ATTR["A"]>>, <<0, ERR_ATTR["NO"]>>,
     <<0, ERR_ATTR["NO_SUCH"]>>, <<0, ERR_ATTR["ENOUGH"]>>, <<1, ERR_ATTR["ENOUGH"]>>}

CodePair == <<ERROR64_GET_N(errcode), ERROR64_GET_A(errcode)>>

\* The three components of the message of the code in hand.
NounWords == Words(glossary(linked, ERROR64_GET_U(errcode)))

NotWords == IF ERROR64_GET_N(errcode) = 1 THEN <<"NOT">> ELSE <<>>

AdjWords == Words(Adjective(errcode))

\* The inputs of the call site fit the widths of their fields.
SiteFits ==
    /\ site.ver <= 127 /\ site.rev <= 65535 /\ site.line <= 65535
    /\ site.neg <= 1 /\ site.attr <= 255 /\ site.noun <= 32767
    /\ site.high = NoHigh

\* C1: a code that ERROR64 builds from fields that fit their widths yields,
\* through ERROR64_GET_E/V/R/L/N/A/U, error flag 1 and exactly the version,
\* revision, line, negation, attribute and noun that were encoded.
C1_RoundTrip ==
    (Made /\ SiteFits) =>
        /\ ERROR64_GET_E(errcode) = 1
        /\ ERROR64_GET_V(errcode) = site.ver
        /\ ERROR64_GET_R(errcode) = site.rev
        /\ ERROR64_GET_L(errcode) = site.line
        /\ ERROR64_GET_N(errcode) = site.neg
        /\ ERROR64_GET_A(errcode) = site.attr
        /\ ERROR64_GET_U(errcode) = site.noun

C1_Witness ==
    /\ Made /\ SiteFits
    /\ site.ver = 127 /\ site.rev = 65535 /\ site.line = 65535
    /\ site.neg = 1 /\ site.attr = 255 /\ site.noun = 32767
    /\ ERROR64_GET_R(errcode) = 65535

\* C2: ERROR64(x) is negative (bit 63 set) whatever bits the descriptor, the
\* version, the revision and the line contain.
C2_Negative == Made => (ERR_BIT_E \in errcode /\ ~NonNegative(errcode))

C2_Witness ==
    /\ Made /\ IsError
    /\ site.ver = 128 /\ site.rev = 65536 /\ site.line = 65536

\* C3: for a code that is not negative, whatever its lower 24 bits,
\* strerror64 writes and returns the empty string.
C3_SuccessIsEmpty ==
    ~IsError =>
        /\ \A i \in 1 .. Len(hist) :
             hist[i].op = "strerror64" =>
                 hist[i].status = "returned" /\ hist[i].str = ""
        /\ (hist # <<>> /\ hist[Len(hist)].op = "strerror64") => CharAt(buf256, 1) = NUL

C3_Witness ==
    /\ site.made = "literal"
    /\ errcode = Descriptor(1, ERR_ATTR["FOUND"], NN["FILE"], NoHigh)
    /\ Returned("strerror64") # {}
    /\ CharAt(buf256, 1) = NUL

\* C4: for a negative code whose (negation, attribute) pair is none of A,
\* NOT A, NO, NO SUCH, ENOUGH, NOT ENOUGH, strerror64 puts the noun first,
\* then NOT if the negation bit is set, then the adjective; NOT NO and
\* NOT NO SUCH are among these pairs.
C4_DefaultOrder ==
    (IsError /\ CodePair \notin ExceptionPairs) =>
        \A i \in Returned("strerror64") :
            /\ Words(hist[i].str) = NounWords \o NotWords \o AdjWords
            /\ (linked = "demo" /\ Made /\ site.neg = 0 /\ site.attr = ERR_ATTR["FULL"]
                /\ site.noun = NN["DISK"]) => hist[i].str = "DISK FULL"
            /\ (linked = "demo" /\ Made /\ site.neg = 1 /\ site.attr = ERR_ATTR["FOUND"]
                /\ site.noun = NN["FILE"]) => hist[i].str = "FILE NOT FOUND"

C4_Witness ==
    /\ IsError /\ linked = "demo"
    /\ CodePair = <<1, ERR_ATTR["NO"]>>
    /\ site.noun = NN["FILE"]
    /\ \E i \in Returned("strerror64") : hist[i].str = "FILE NOT NO"

\* C5: for a negative code whose (negation, attribute) pair is A, NOT A, NO,
\* NO SUCH, ENOUGH or NOT ENOUGH, strerror64 puts NOT (if set) first, then the
\* adjective, then the noun: NOT|A with DIRECTORY is "NOT A DIRECTORY",
\* NOT|ENOUGH with SPACE is "NOT ENOUGH SPACE".
C5_ExceptionOrder ==
    (IsError /\ CodePair \in ExceptionPairs) =>
        \A i \in Returned("strerror64") :
            /\ Words(hist[i].str) = NotWords \o AdjWords \o NounWords
            /\ (linked = "demo" /\ CodePair = <<1, ERR_ATTR["A"]>>
                /\ ERROR64_GET_U(errcode) = NN["DIRECTORY"])
                   => hist[i].str = "NOT A DIRECTORY"
            /\ (linked = "demo" /\ CodePair = <<1, ERR_ATTR["ENOUGH"]>>
                /\ ERROR64_GET_U(errcode) = NN["SPACE"])
                   => hist[i].str = "NOT ENOUGH SPACE"

C5_Witness ==
    /\ IsError /\ linked = "demo"
    /\ CodePair = <<1, ERR_ATTR["ENOUGH"]>>
    /\ ERROR64_GET_U(errcode) = NN["SPACE"]
    /\ \E i \in Returned("strerror64") : hist[i].str = "NOT ENOUGH SPACE"

\* C6: for a negative code the string strerror64 produces is its non-empty
\* components joined by exactly one space each: no space at the start or the
\* end and no two spaces in a row, whichever components are empty.
C6_SingleSpaces ==
    IsError =>
        \A i \in Returned("strerror64") : hist[i].str = JoinNonEmpty(hist[i].parts)

\* C7: for each of the attribute codes 1..151 defined as ERR_ constants,
\* strerror64 of a negative code with that attribute resolves the adjective
\* to the words of the constant's name, underscores as spaces, never to the
\* empty string.
C7_Vocabulary ==
    (IsError /\ ERROR64_GET_A(errcode) \in 1 .. 151) =>
        \A i \in Returned("strerror64") :
            /\ Adjective(errcode) = Phrase(AttrName(ERROR64_GET_A(errcode)))
            /\ (CodePair \notin ExceptionPairs) =>
                   Words(hist[i].str) =
                       NounWords \o NotWords \o Words(Phrase(AttrName(ERROR64_GET_A(errcode))))

\* C8: a value wider than its field is masked: each field extracted from
\* ERROR64's code equals its own input AND its field mask, so no oversized
\* value changes another field.
C8_OverflowMasked ==
    Made =>
        /\ ERROR64_GET_E(errcode) = 1
        /\ ERROR64_GET_V(errcode) = site.ver % 128
        /\ ERROR64_GET_R(errcode) = site.rev % 65536
        /\ ERROR64_GET_L(errcode) = site.line % 65536
        /\ ERROR64_GET_N(errcode) = ERROR64_GET_N(SiteX)
        /\ ERROR64_GET_A(errcode) = ERROR64_GET_A(SiteX)
        /\ ERROR64_GET_U(errcode) = ERROR64_GET_U(SiteX)

\* C9: for a negative code and a glossary name of any length, strerror64
\* returns having written at most 256 bytes at the caller's buffer and at
\* most 208 bytes at its noun array, the result terminated within the 256.
C9_OutputBound ==
    IsError =>
        \A i \in 1 .. Len(hist) :
            hist[i].op = "strerror64" =>
                /\ hist[i].status = "returned"
                /\ hist[i].nounBytes <= NounSize
                /\ hist[i].bufBytes <= BufSize
                /\ Len(hist[i].str) < BufSize

\* C10: for every code, the string strerror64ex returns starts with the
\* string strerror64 returns for the same code.
C10_ExtendedHasPrefix ==
    \A i \in Returned("strerror64") : \A j \in Returned("strerror64ex") :
        IsPrefix(hist[i].str, hist[j].str)

\* C11: strerror64ex appends the suffix of fields only for error codes: for a
\* negative code its string is the string of strerror64 followed by the
\* suffix of the raw value and the seven ERROR64_GET_ fields; for a code that
\* is not negative its string is the string of strerror64, the empty string.
C11_SuffixOnlyForErrors ==
    \A j \in Returned("strerror64ex") :
        /\ IsError =>
               \A i \in Returned("strerror64") :
                   hist[j].str = hist[i].str \o FieldSuffix(libc, errcode)
        /\ ~IsError => hist[j].str = ""

\* The negation, attribute and noun bits of a code: its lower 24 bits.
Low24(c) == And64(c, 0 .. (ERR_BIT_L - 1))

\* C12: two negative codes with the same lower 24 bits get the same string
\* from strerror64 under the same glossary, whatever their version, revision
\* and line.
C12_LocatorIndependence ==
    \A i \in Returned("strerror64") : \A j \in Returned("strerror64") :
        (/\ ~NonNegative(hist[i].code) /\ ~NonNegative(hist[j].code)
         /\ Low24(hist[i].code) = Low24(hist[j].code))
            => hist[i].str = hist[j].str

C12_Witness ==
    \E i \in Returned("strerror64") : \E j \in Returned("strerror64") :
        /\ ERROR64_GET_V(hist[i].code) = 0 /\ ERROR64_GET_V(hist[j].code) = 127
        /\ ERROR64_GET_R(hist[i].code) = 0 /\ ERROR64_GET_R(hist[j].code) = 65535
        /\ ERROR64_GET_L(hist[i].code) = 1024 /\ ERROR64_GET_L(hist[j].code) = 65535
        /\ Low24(hist[i].code) = Low24(hist[j].code)
        /\ hist[i].str = "FILE NOT FOUND" /\ hist[j].str = "FILE NOT FOUND"

\* C16: two calls of strerror64, or two of strerror64ex, with the same code
\* and the same glossary return the same string, whatever the buffer held
\* before each call and whatever codes were rendered in between.
C16_Idempotence ==
    \A i \in 1 .. Len(hist) : \A j \in 1 .. Len(hist) :
        (hist[i].op = hist[j].op /\ hist[i].code = hist[j].code)
            => /\ hist[i].status = "returned" /\ hist[j].status = "returned"
               /\ hist[i].str = hist[j].str

C16_Witness ==
    /\ Len(hist) = 3
    /\ hist[1].op = "strerror64ex" /\ hist[3].op = "strerror64ex"
    /\ hist[1].code = hist[3].code /\ hist[2].code # hist[1].code
    /\ ~NonNegative(hist[1].code) /\ ~NonNegative(hist[2].code)
    /\ hist[1].before = Rep(GARBAGE, BufSize)
    /\ CStr(hist[3].before) = hist[2].str /\ hist[2].str # ""
    /\ hist[1].str = hist[3].str /\ Len(hist[1].str) > Len("FILE NOT FOUND")

\* The bits off .. off + width - 1 of a code, read as an unsigned number.
FieldBits(c, off, width) == BitsValue({i - off : i \in c \cap (off .. (off + width - 1))})

\* C13: for every code, negative or not, each ERROR64_GET_ result is the
\* unsigned value of its own bits: 0..1 for E and N, 0..127 for V, 0..65535
\* for R and L, 0..255 for A, 0..32767 for U; E of a negative code is 1.
C13_ExtractionUnsigned ==
    /\ ERROR64_GET_E(errcode) = FieldBits(errcode, ERR_BIT_E, 1)
    /\ ERROR64_GET_V(errcode) = FieldBits(errcode, ERR_BIT_V, 7)
    /\ ERROR64_GET_R(errcode) = FieldBits(errcode, ERR_BIT_R, 16)
    /\ ERROR64_GET_L(errcode) = FieldBits(errcode, ERR_BIT_L, 16)
    /\ ERROR64_GET_N(errcode) = FieldBits(errcode, ERR_BIT_N, 1)
    /\ ERROR64_GET_A(errcode) = FieldBits(errcode, ERR_BIT_A, 8)
    /\ ERROR64_GET_U(errcode) = FieldBits(errcode, ERR_BIT_U, 15)
    /\ ERROR64_GET_E(errcode) \in 0 .. 1 /\ ERROR64_GET_N(errcode) \in 0 .. 1
    /\ ERROR64_GET_V(errcode) \in 0 .. 127
    /\ ERROR64_GET_R(errcode) \in 0 .. 65535 /\ ERROR64_GET_L(errcode) \in 0 .. 65535
    /\ ERROR64_GET_A(errcode) \in 0 .. 255 /\ ERROR64_GET_U(errcode) \in 0 .. 32767
    /\ ~NonNegative(errcode) => ERROR64_GET_E(errcode) = 1

\* The code with all 64 bits set, -1.
C13_Witness ==
    /\ Made /\ errcode = Bit
    /\ ERROR64_GET_E(errcode) = 1 /\ ERROR64_GET_V(errcode) = 127
    /\ ERROR64_GET_U(errcode) = 32767

\* The noun codes that have a case in the glossary of the demo.
DemoNouns == {NN[name] : name \in DOMAIN NN}

\* C14: strerror64 returns a string for every negative code: an attribute
\* code that is 0 or above 151 contributes the empty string, a noun code the
\* glossary does not know contributes the glossary's placeholder "??".
C14_Total ==
    IsError =>
        \A i \in 1 .. Len(hist) :
            hist[i].op = "strerror64" =>
                /\ hist[i].status = "returned"
                /\ (ERROR64_GET_A(errcode) \notin 1 .. 151) =>
                       /\ hist[i].parts[3] = ""
                       /\ Words(hist[i].str) = NounWords \o NotWords
                /\ (linked = "demo" /\ ERROR64_GET_U(errcode) \notin DemoNouns) =>
                       /\ "??" \in {hist[i].parts[1], hist[i].parts[3]}
                       /\ "??" \in {Words(hist[i].str)[k] : k \in 1 .. Len(Words(hist[i].str))}

C14_Witness ==
    /\ IsError /\ linked = "demo"
    /\ ERROR64_GET_A(errcode) = 255 /\ ERROR64_GET_U(errcode) = 32767
    /\ \E i \in Returned("strerror64") : Words(hist[i].str) = <<"??", "NOT">>

\* C15: for a negative code whose noun code is 0 and whose attribute is one
\* of the 151 constants, outside the exception pairs, strerror64 returns
\* exactly the adjective when the negation bit is clear and "NOT " followed by
\* the adjective when it is set.
C15_NounlessMessages ==
    (/\ IsError /\ ERROR64_GET_U(errcode) = 0
     /\ ERROR64_GET_A(errcode) \in 1 .. 151 /\ CodePair \notin ExceptionPairs) =>
        \A i \in Returned("strerror64") :
            hist[i].str =
                (IF ERROR64_GET_N(errcode) = 1 THEN "NOT " ELSE "")
                \o Phrase(AttrName(ERROR64_GET_A(errcode)))

\* C19: for a code that is not negative strerror64 returns before it calls
\* the glossary and before it reads the negation, attribute or noun bits: no
\* glossary call is made and no component is resolved.
C19_SuccessShortCircuit ==
    ~IsError =>
        \A i \in 1 .. Len(hist) :
            hist[i].op = "strerror64" =>
                /\ hist[i].asked = <<>>
                /\ hist[i].parts = <<>>
                /\ hist[i].nounBytes = 0

\* The greatest int64_t: every bit below the sign is set.
C19_Witness ==
    /\ site.made = "literal" /\ errcode = Bit \ {WordBits - 1}
    /\ ERROR64_GET_U(errcode) = 32767 /\ ERROR64_GET_N(errcode) = 1
    /\ \E i \in Returned("strerror64") : hist[i].asked = <<>> /\ hist[i].str = ""

\* C20: for a negative code strerror64 calls the glossary exactly once, with
\* ERROR64_GET_U of the code, a value in 0..32767.
C20_GlossaryCalledOnce ==
    IsError =>
        \A i \in 1 .. Len(hist) :
            hist[i].op = "strerror64" =>
                /\ Len(hist[i].asked) = 1
                /\ hist[i].asked[1] = ERROR64_GET_U(errcode)
                /\ hist[i].asked[1] \in 0 .. 32767

C20_Witness ==
    /\ Made /\ IsError /\ errcode = Bit
    /\ \E i \in Returned("strerror64") : hist[i].asked = <<32767>>

\* C17: errno64 is a cell per thread: what a thread reads from errno64 is the
\* value that thread last assigned, 0 if it has assigned none, whatever the
\* other thread has assigned in between.
C17_PerThreadErrno ==
    \A t \in Threads :
        /\ errno64Cell[ErrnoCell(t)] = lastSet[t]
        /\ thread[t].pc # "main" => thread[t].arg = lastSet[t]

\* Thread 1 has read 0 without having assigned; thread 2 has assigned a code
\* and read it back.
C17_Witness ==
    /\ thread[1].pc = "done" /\ thread[2].pc = "done"
    /\ lastSet[1] = I64(0) /\ thread[1].arg = I64(0)
    /\ lastSet[2] \in ThreadCodes /\ thread[2].arg = lastSet[2]

\* C18: when the threads run strerror64 at the same time on their own codes
\* and buffers, each buffer ends with the string a call on its own, run from
\* start to end, produces for that code.
C18_Reentrant ==
    \A t \in Threads :
        thread[t].pc = "done" =>
            CStr(thread[t].buf)
                = CStr(strerror64(libc, linked, Rep(GARBAGE, BufSize), thread[t].arg).buf)

C18_Witness ==
    /\ thread[1].pc = "done" /\ thread[2].pc = "done"
    /\ thread[2].concurrent
    /\ CStr(thread[1].buf) = "SERVICE NOT AVAILABLE"
    /\ CStr(thread[2].buf) = "NOT A DIRECTORY"

\* The seven fields of a code, as the ERROR64_GET_ macros extract them.
Fields(c) ==
    <<ERROR64_GET_E(c), ERROR64_GET_V(c), ERROR64_GET_R(c), ERROR64_GET_L(c),
      ERROR64_GET_N(c), ERROR64_GET_A(c), ERROR64_GET_U(c)>>

\* Each field shifted back to its offset, the seven OR-ed together.
Reassembled(c) ==
    LET f == Fields(c)
        offs == <<ERR_BIT_E, ERR_BIT_V, ERR_BIT_R, ERR_BIT_L, ERR_BIT_N, ERR_BIT_A, ERR_BIT_U>>
    IN  UNION {Shl(I64(f[k]), offs[k]) : k \in 1 .. 7}

\* The 64 codes that differ from c in exactly one bit.
OneBitOff(c) == {(c \ {b}) \cup ({b} \ c) : b \in Bit}

\* C21: the seven fields tile the 64 bits: for every code, the fields shifted
\* back to their offsets and OR-ed give the code again, and a code that
\* differs from it in any one bit differs from it in some field.
C21_FieldsTile ==
    hist = <<>> =>
        /\ Reassembled(errcode) = errcode
        /\ \A d \in OneBitOff(errcode) : Fields(d) # Fields(errcode)

C21_Witness ==
    /\ Made /\ hist = <<>>
    /\ Fields(errcode) = <<1, 127, 65535, 65535, 1, 255, 32767>>
    /\ Reassembled(errcode) = Bit

\* The bits of the attribute field, 15..22.
AttrBits == ERR_BIT_A .. (ERR_BIT_N - 1)

\* C22: each attribute constant ERR_x is non-zero, lies within bits 15..22
\* and differs from every other attribute constant; ERR_NOT_x is ERR_x with
\* bit 23 added; ERR_x OR-ed with a noun code below 32768 has ERROR64_GET_A
\* equal to the attribute code and ERROR64_GET_U equal to the noun code.
C22_AttributeConstants ==
    (Made /\ hist = <<>> /\ site.attr \in 1 .. 151 /\ site.high = NoHigh) =>
        LET name == AttrName(site.attr)
        IN  /\ ERR(name) # I64(0)
            /\ ERR(name) \subseteq AttrBits
            /\ \A other \in DOMAIN ERR_ATTR \ {name} : ERR(other) # ERR(name)
            /\ ERR_BIT_N \notin ERR(name)
            /\ ERR_NOT_(name) = ERR(name) \cup {ERR_BIT_N}
            /\ SiteX = Or64(IF site.neg = 1 THEN ERR_NOT_(name) ELSE ERR(name), I64(site.noun))
            /\ \A n \in {site.noun, 32767} :
                   /\ ERROR64_GET_A(Or64(ERR(name), I64(n))) = ERR_ATTR[name]
                   /\ ERROR64_GET_U(Or64(ERR(name), I64(n))) = n
                   /\ ERROR64_GET_N(Or64(ERR(name), I64(n))) = 0
                   /\ ERROR64_GET_A(Or64(ERR_NOT_(name), I64(n))) = ERR_ATTR[name]
                   /\ ERROR64_GET_N(Or64(ERR_NOT_(name), I64(n))) = 1
            /\ ERROR64_GET_A(errcode) = ERR_ATTR[name]
            /\ ERROR64_GET_U(errcode) = site.noun

\* ERR_WRONG, the greatest attribute code: 151 << 15.
C22_Witness ==
    /\ Made /\ hist = <<>> /\ site.attr = 151 /\ site.noun = 0
    /\ ERR("WRONG") = {15, 16, 17, 19, 22}
    /\ ERR_NOT_("WRONG") = {15, 16, 17, 19, 22, 23}
    /\ ERROR64_GET_A(errcode) = 151

\* The calls so far that printed a line.
Prints == {i \in 1 .. Len(hist) : hist[i].op \in {"fperror64", "perror64"}}

\* C23: for every value of errno64 the line fperror64 (and perror64) prints
\* is the caller's text, " : ", the string strerror64ex returns for that
\* value, and a newline.
C23_PrintAgreesWithEx ==
    \A i \in Prints : \A j \in Returned("strerror64ex") :
        hist[i].code = hist[j].code =>
            /\ hist[i].status = "returned"
            /\ hist[i].str = hist[i].txt \o " : " \o hist[j].str \o "\n"

\* C24: strerror64, strerror64ex, fperror64 and perror64 leave errno64 as it
\* was: after any sequence of them the thread's errno64 holds the value of
\* its last assignment.
C24_ErrnoUnchanged == Errno64 = lastSet[MainThread]

C24_Witness ==
    /\ Len(hist) = 2
    /\ hist[1].op = "perror64" /\ hist[2].op = "strerror64ex"
    /\ hist[1].code = hist[2].code /\ ~NonNegative(hist[1].code)
    /\ Errno64 = hist[1].code /\ lastSet[MainThread] = hist[1].code

====
